---- MODULE Spec2Model ----
(***************************************************************************)
(* A model of http-jsonrpc-server: the HTTP request handler (reqHandler,   *)
(* checkRequest, sendResponse, sendError) and the JSON-RPC dispatcher      *)
(* (RpcServer.processRequest, setMethod).                                  *)
(*                                                                         *)
(* JavaScript values are tagged records.  A JavaScript string is the       *)
(* sequence of its lexical fragments (a fragment is a run of characters    *)
(* that no operation of the program splits, such as "application/json",    *)
(* ";", "," or " "); equality, startsWith, split, trim and parseInt work   *)
(* on the fragments as the JavaScript operations work on the characters.   *)
(***************************************************************************)
EXTENDS Integers, Sequences, FiniteSets, TLC

(* ------------------------------ bounds -------------------------------- *)

\* Longest header value, in fragments, that the header specification draws.
MaxHdrLen == 3
\* Longest request body, in characters.
MaxBody == 2
\* Longest batch, in elements.
MaxBatch == 2
\* Most calls of listen and close made on one server.
MaxCalls == 3

(* ------------------------- JavaScript values -------------------------- *)

Undefined == [t |-> "undefined"]
Null == [t |-> "null"]
NaN == [t |-> "NaN"]
Num(n) == [t |-> "number", n |-> n]
Str(s) == [t |-> "string", s |-> s]
Bool(b) == [t |-> "boolean", b |-> b]
Arr(a) == [t |-> "array", a |-> a]
Obj(o) == [t |-> "object", o |-> o]
False == Bool(FALSE)

\* typeof v
TypeOf(v) ==
  IF v.t \in {"null", "array", "object", "error"} THEN "object"
  ELSE IF v.t = "NaN" THEN "number"
  ELSE v.t

\* ToBoolean(v): the test of `if (v)`, `!v`, `a && b`, `a || b`
Truthy(v) ==
  CASE v.t = "undefined" -> FALSE
    [] v.t = "null" -> FALSE
    [] v.t = "NaN" -> FALSE
    [] v.t = "number" -> v.n # 0
    [] v.t = "string" -> v.s # <<>>
    [] v.t = "boolean" -> v.b
    [] OTHER -> TRUE

\* a === b for primitives
StrictEq(a, b) == a.t = b.t /\ a = b

\* v[k]: the property k of a value that is neither null nor undefined
Prop(v, k) == IF v.t = "object" /\ k \in DOMAIN v.o THEN v.o[k] ELSE Undefined

(* ------------------------------ strings ------------------------------- *)

\* s.startsWith(p)
StartsWith(s, p) == Len(s) >= Len(p) /\ SubSeq(s, 1, Len(p)) = p

\* s.split(sep), sep a one-fragment separator
RECURSIVE Split(_, _)
Split(s, sep) ==
  IF \E i \in 1..Len(s) : s[i] = sep
  THEN LET i == CHOOSE k \in 1..Len(s) : s[k] = sep /\ \A j \in 1..(k - 1) : s[j] # sep
       IN <<SubSeq(s, 1, i - 1)>> \o Split(SubSeq(s, i + 1, Len(s)), sep)
  ELSE <<s>>

RECURSIVE TrimStart(_)
TrimStart(s) == IF s # <<>> /\ Head(s) = " " THEN TrimStart(Tail(s)) ELSE s

RECURSIVE TrimEnd(_)
TrimEnd(s) == IF s # <<>> /\ s[Len(s)] = " " THEN TrimEnd(SubSeq(s, 1, Len(s) - 1)) ELSE s

\* s.trim()
Trim(s) == TrimEnd(TrimStart(s))

Digits == <<"0", "1", "2", "3", "4", "5", "6", "7", "8", "9">>
IsDigit(c) == \E d \in 1..Len(Digits) : Digits[d] = c
DigitValue(c) == (CHOOSE d \in 1..Len(Digits) : Digits[d] = c) - 1

\* the number of leading digits of s
RECURSIVE DigitRun(_)
DigitRun(s) == IF s # <<>> /\ IsDigit(Head(s)) THEN 1 + DigitRun(Tail(s)) ELSE 0

\* the value of a sequence of digits, most significant first
RECURSIVE DigitsValue(_)
DigitsValue(s) ==
  IF s = <<>> THEN 0 ELSE 10 * DigitsValue(SubSeq(s, 1, Len(s) - 1)) + DigitValue(s[Len(s)])

\* parseInt(v, 10): leading white space is skipped, then an optional sign, then
\* the longest run of digits; NaN when there is no digit.  parseInt(undefined)
\* parses the string "undefined" and is NaN.
ParseInt(v) ==
  IF v.t # "string" THEN NaN
  ELSE LET s0 == TrimStart(v.s)
           signed == s0 # <<>> /\ Head(s0) \in {"-", "+"}
           s1 == IF signed THEN Tail(s0) ELSE s0
           n == DigitRun(s1)
           magnitude == DigitsValue(SubSeq(s1, 1, n))
       IN IF n = 0 THEN NaN
          ELSE IF signed /\ Head(s0) = "-" THEN Num(0 - magnitude)
          ELSE Num(magnitude)

(* ----------------------------- constants ------------------------------ *)

PARSE_ERROR == -32700
INVALID_REQUEST == -32600
METHOD_NOT_FOUND == -32601
INVALID_PARAMS == -32602
SERVER_ERROR == -32000
SERVER_ERROR_MAX == -32099

INVALID_ACCEPT_HEADER_MSG == "INVALID_ACCEPT_HEADER_MSG"
INVALID_CONTENT_LENGTH_MSG == "INVALID_CONTENT_LENGTH_MSG"

AJ == "application/json"

(* ------------------------------- state -------------------------------- *)

VARIABLES
  path,       \* this.path
  username,   \* the configured user name, Undefined when authentication is off
  onRequest,  \* whether this.onRequest is set
  onError,    \* whether this.onError is set
  onResult,   \* whether this.onResult is set
  onRequestThrows, \* whether the function in this.onRequest throws when it is called
  methods,    \* this.methods: the own properties of the Method Registry
  registrations, \* the function of the latest setMethod call that succeeded, per name
  options,    \* the argument of the constructor call under way, Undefined outside one
  instance,   \* "none" before the constructor ran, then "created" or "threw"
  server,     \* this.server: its handle, its once-listeners, the events it is to emit
  promises,   \* the promises listen and close returned, in the order of the calls
  pc,         \* where the connection's handling stands
  req,        \* the HTTP request: url, method, headers, and the body the client sends
  body,       \* the chunks accumulated so far
  res,        \* the HTTP response
  request,    \* the value JSON.parse gave, Undefined before it
  elems,      \* one record per call of processRequest: its promise and its response
  log,        \* the calls made so far for this request, in order
  parked      \* a second connection, whose listeners wait for their next event

vars == <<path, username, onRequest, onError, onResult, onRequestThrows, methods, registrations,
         options, instance, server, promises, pc, req, body, res, request, elems, log,
         parked>>

config == <<path, username, onRequest, onError, onResult, onRequestThrows>>

lifecycle == <<options, instance, server, promises>>

(* --------------------------- the HTTP response ------------------------ *)

NoBody == [kind |-> "none"]

\* a fresh http.ServerResponse
NewRes ==
  [statusCode |-> 200,
   headers |-> [connection |-> "", contentType |-> "", contentLength |-> "", wwwAuthenticate |-> <<>>],
   body |-> NoBody,
   ended |-> FALSE]

\* a sendResponse that writes whatever it is given
SendResponse_AlwaysWrites(r, response) ==
  [r EXCEPT !.headers.contentType = AJ,
            !.headers.contentLength = "responseStr.length",
            !.body = [kind |-> "json", value |-> response],
            !.ended = TRUE]

\* a sendResponse that reports a JSON-RPC error in the HTTP status
SendResponse_ErrorStatus(r, response) ==
  IF Truthy(response)
  THEN [r EXCEPT !.statusCode = IF response.t = "response" /\ response.error # Undefined
                                THEN 500 ELSE r.statusCode,
                 !.headers.contentType = AJ,
                 !.headers.contentLength = "responseStr.length",
                 !.body = [kind |-> "json", value |-> response],
                 !.ended = TRUE]
  ELSE [r EXCEPT !.headers.contentLength = "0", !.statusCode = 204, !.ended = TRUE]

\* sendResponse(res, response)
SendResponse(r, response) ==
  IF Truthy(response)
  THEN [r EXCEPT !.headers.contentType = AJ,
                 !.headers.contentLength = "responseStr.length",
                 !.body = [kind |-> "json", value |-> response],
                 !.ended = TRUE]
  ELSE [r EXCEPT !.headers.contentLength = "0", !.statusCode = 204, !.ended = TRUE]

\* sendError(res, statusCode, message); message "" is an absent message
SendError(r, statusCode, message) ==
  IF message # ""
  THEN [r EXCEPT !.statusCode = statusCode,
                 !.headers.contentType = AJ,
                 !.headers.contentLength = "formattedMessage.length",
                 !.body = [kind |-> "error", error |-> message],
                 !.ended = TRUE]
  ELSE [r EXCEPT !.statusCode = statusCode, !.ended = TRUE]

(* ---------------------------- checkRequest ---------------------------- *)

NoErr == [none |-> TRUE, statusCode |-> 0, message |-> ""]
Err(statusCode, message) == [none |-> FALSE, statusCode |-> statusCode, message |-> message]

\* a Content-Type test that takes `application/json` alone
ContentTypeOk_Exact(ct) == Truthy(ct) /\ ct.s = <<AJ>>

\* the Content-Type test of checkRequest
ContentTypeOk(ct) ==
  Truthy(ct) /\ (ct.s = <<AJ>> \/ StartsWith(ct.s, <<AJ, ";">>))

\* an Accept test that takes `application/json` alone
AcceptOk_Exact(accept) == Truthy(accept) /\ accept.s = <<AJ>>

\* the Accept test of checkRequest
AcceptOk(accept) ==
  Truthy(accept)
  /\ (\/ accept.s = <<AJ>>
      \/ LET values == Split(accept.s, ",")
         IN \E k \in 1..Len(values) :
              LET trimmedValue == Trim(values[k])
              IN trimmedValue = <<AJ>> \/ StartsWith(trimmedValue, <<AJ, ";">>))

\* a Content-Length test that forgets the sign
ContentLengthOk_AnyInteger(cl) == ParseInt(cl).t # "NaN"

\* the Content-Length test of checkRequest
ContentLengthOk(cl) ==
  LET reqContentLength == ParseInt(cl)
  IN ~(reqContentLength.t = "NaN" \/ reqContentLength.n < 0)

\* a checkRequest that looks at the method before the path
CheckRequest_MethodFirst(r, p) ==
  IF r.method # "POST" THEN Err(405, "")
  ELSE IF r.url # p THEN Err(404, "")
  ELSE IF ~ContentTypeOk(r.headers.contentType) THEN Err(415, "")
  ELSE IF ~AcceptOk(r.headers.accept) THEN Err(400, INVALID_ACCEPT_HEADER_MSG)
  ELSE IF ~ContentLengthOk(r.headers.contentLength) THEN Err(400, INVALID_CONTENT_LENGTH_MSG)
  ELSE NoErr

\* checkRequest(req, path)
CheckRequest(r, p) ==
  IF r.url # p THEN Err(404, "")
  ELSE IF r.method # "POST" THEN Err(405, "")
  ELSE IF ~ContentTypeOk(r.headers.contentType) THEN Err(415, "")
  ELSE IF ~AcceptOk(r.headers.accept) THEN Err(400, INVALID_ACCEPT_HEADER_MSG)
  ELSE IF ~ContentLengthOk(r.headers.contentLength) THEN Err(400, INVALID_CONTENT_LENGTH_MSG)
  ELSE NoErr

(* --------------------------- authentication --------------------------- *)

password == Str(<<"wasspord">>)
realm == "testrealm"

\* The base64 encoding of a string, kept symbolic: an injective map.
Base64(s) == <<"base64(">> \o s \o <<")">>

\* `Basic base64(username:password)`
Credentials(user, pass) == Str(<<"Basic ">> \o Base64(user.s \o <<":">> \o pass.s))

\* an authorization that takes any Basic credentials
Authorized_AnyBasic(authorization) ==
  authorization.t = "string" /\ StartsWith(authorization.s, <<"Basic ">>)

\* the Authorization header is the configured credentials, exactly
Authorized(authorization) == StrictEq(authorization, Credentials(username, password))

\* the 401 answer
SendUnauthorized(r) ==
  SendError([r EXCEPT !.headers.wwwAuthenticate = <<"Basic realm=\"", realm, "\"">>], 401, "")

(* ------------------------------ the body ------------------------------ *)

\* A body is the sequence of its characters, each known by its class, and the
\* value JSON.parse gives for it.  "a" is an ASCII character (one byte, one
\* UTF-16 code unit), "U+00E9" a character of two UTF-8 bytes and one code unit.
BodyChars == {"a", "U+00E9"}

\* the bytes of a character in UTF-8
Bytes(c) == IF c = "a" THEN 1 ELSE 2

\* the length of Buffer.concat(body): the bytes received
RECURSIVE ByteLength(_)
ByteLength(text) == IF text = <<>> THEN 0 ELSE Bytes(Head(text)) + ByteLength(Tail(text))

\* Buffer.concat(body).toString().length: one UTF-16 code unit per character
StringLength(text) == Len(text)

\* JSON.parse(bodyStr): the value, or the SyntaxError thrown
ParseFailure == [ok |-> FALSE, value |-> Undefined]
Parsed(v) == [ok |-> TRUE, value |-> v]
JSONParse(b) == b.parsed

(* ------------------------------ handlers ------------------------------ *)

Fn(name) == [t |-> "function", name |-> name]

Error(name, message, code) == [t |-> "error", name |-> name, message |-> message, code |-> code]
TypeError == Error("TypeError", Str(<<"TypeError">>), Undefined)

\* what a call settles to: a synchronous throw, or a value or promise that
\* resolves, or a promise that rejects
Throw(v) == [kind |-> "throw", v |-> v]
Resolve(v) == [kind |-> "resolve", v |-> v]
Reject(v) == [kind |-> "reject", v |-> v]
NoOutcome == [kind |-> "none", v |-> Undefined]

RECURSIVE Total(_)
Total(a) == IF a = <<>> THEN 0 ELSE Head(a).n + Total(Tail(a))

\* sum(arr) of the tests
Sum(params) ==
  IF params.t \in {"undefined", "null"} THEN Throw(TypeError)
  ELSE IF params.t # "array" THEN Resolve(Num(0))
  ELSE IF \E k \in 1..Len(params.a) : TypeOf(params.a[k]) # "number"
  THEN Throw(Error("AssertionError", Str(<<"parameters must be an array of numbers">>),
                   Str(<<"ERR_ASSERTION">>)))
  ELSE Resolve(Num(Total(params.a)))

\* wait(params) of the tests: an async function
Wait(params) ==
  IF params.t \in {"undefined", "null"} THEN Reject(TypeError) ELSE Resolve(Bool(TRUE))

\* notify(params) of the tests
Notify(params) ==
  IF params.t \in {"undefined", "null"} THEN Throw(TypeError) ELSE Resolve(Undefined)

\* the call f(params)
Invoke(f, params) ==
  CASE f.name = "sum" -> Sum(params)
    [] f.name = "wait" -> Wait(params)
    [] f.name = "notify" -> Notify(params)
    [] f.name = "throws" -> Throw(params)
    [] f.name = "rejects" -> Reject(params)
    [] f.name = "Object.prototype.toString" -> Resolve(Str(<<"[object Object]">>))
    [] f.name = "Object" -> Resolve(IF TypeOf(params) = "object" /\ params.t # "null"
                                    THEN params ELSE Obj(<<>>))
    [] OTHER -> Resolve(False)

(* --------------------------- the registry ----------------------------- *)

\* the properties every object inherits from Object.prototype
ObjectPrototype == {<<"toString">>, <<"constructor">>, <<"hasOwnProperty">>}

\* name in ms
In(name, ms) == name \in DOMAIN ms \/ name \in ObjectPrototype

\* ms[name]
Lookup(ms, name) ==
  IF name \in DOMAIN ms THEN ms[name]
  ELSE IF name = <<"toString">> THEN Fn("Object.prototype.toString")
  ELSE IF name = <<"constructor">> THEN Fn("Object")
  ELSE Fn("Object.prototype.hasOwnProperty")

(* -------------------------- processRequest ---------------------------- *)

NewResponse == [t |-> "response", jsonrpc |-> "2.0", id |-> Undefined, result |-> Undefined, error |-> Undefined]

ErrorObject(code, message) == [code |-> code, message |-> message]

\* the state of one call of processRequest
Resolved(rq, value, events) ==
  [request |-> rq, state |-> "resolved", value |-> value, response |-> NewResponse,
   pending |-> NoOutcome, events |-> events]
Awaiting(rq, response, outcome, events) ==
  [request |-> rq, state |-> "awaiting", value |-> Undefined, response |-> response,
   pending |-> outcome, events |-> events]
Rejected(rq, events) ==
  [request |-> rq, state |-> "rejected", value |-> Undefined, response |-> NewResponse,
   pending |-> NoOutcome, events |-> events]

\* ToNumber(v) of a relational comparison
ToNumber(v) ==
  CASE v.t = "number" -> v
    [] v.t = "string" ->
         IF v.s = <<>> THEN Num(0)
         ELSE LET signed == Head(v.s) \in {"-", "+"}
                  s1 == IF signed THEN Tail(v.s) ELSE v.s
              IN IF s1 # <<>> /\ DigitRun(s1) = Len(s1)
                 THEN Num((IF Head(v.s) = "-" THEN -1 ELSE 1) * DigitsValue(s1))
                 ELSE NaN
    [] v.t = "boolean" -> Num(IF v.b THEN 1 ELSE 0)
    [] v.t = "null" -> Num(0)
    [] OTHER -> NaN

\* a band test that leaves the two bounds out
InServerErrorBand_Exclusive(code) ==
  /\ Truthy(code)
  /\ ToNumber(code).t = "number"
  /\ ToNumber(code).n < SERVER_ERROR
  /\ ToNumber(code).n > SERVER_ERROR_MAX

\* err.code && err.code <= SERVER_ERROR && err.code >= SERVER_ERROR_MAX
InServerErrorBand(code) ==
  /\ Truthy(code)
  /\ ToNumber(code).t = "number"
  /\ ToNumber(code).n <= SERVER_ERROR
  /\ ToNumber(code).n >= SERVER_ERROR_MAX

\* err.k of a thrown value
ErrProp(err, k) == IF err.t = "error" THEN err[k] ELSE Prop(err, k)

\* a catch block that does not tell the error callback
Catch_Silent(rq, response, err, hasOnError, events) ==
  IF err.t \in {"undefined", "null"} THEN Rejected(rq, events)
  ELSE LET message == IF Truthy(ErrProp(err, "message")) THEN ErrProp(err, "message") ELSE err
           code == IF InServerErrorBand(ErrProp(err, "code"))
                   THEN ErrProp(err, "code") ELSE Num(SERVER_ERROR)
       IN Resolved(rq, [response EXCEPT !.error = ErrorObject(code, message)], events)

\* the catch block of processRequest
Catch(rq, response, err, hasOnError, events) ==
  LET events1 == IF hasOnError
                 THEN Append(events, [e |-> "onError", err |-> err, id |-> Prop(rq, "id")])
                 ELSE events
  IN IF err.t \in {"undefined", "null"} THEN Rejected(rq, events1)
     ELSE LET message == IF Truthy(ErrProp(err, "message")) THEN ErrProp(err, "message") ELSE err
              code == IF InServerErrorBand(ErrProp(err, "code"))
                      THEN ErrProp(err, "code") ELSE Num(SERVER_ERROR)
          IN Resolved(rq, [response EXCEPT !.error = ErrorObject(code, message)], events1)

\* a server that never tells the result callback
OnResult_Never(rq, result, hasOnResult) == <<>>

\* the call of the result callback, with the result and the request's id
OnResult(rq, result, hasOnResult) ==
  IF hasOnResult
  THEN <<[e |-> "onResult", result |-> result, id |-> Prop(rq, "id")]>>
  ELSE <<>>

\* the continuation of processRequest after the await
AfterAwait(el, hasOnError, hasOnResult) ==
  IF el.pending.kind = "resolve"
  THEN LET response == [el.response EXCEPT !.result = el.pending.v]
       IN Resolved(el.request, IF Truthy(response.id) THEN response ELSE False,
                   OnResult(el.request, response.result, hasOnResult))
  ELSE Catch(el.request, el.response, el.pending.v, hasOnError, <<>>)

\* a processRequest without the notification test
IsNotification_Never(id) == FALSE

\* the test that makes processRequest return nothing for a notification
IsNotification(id) == ~Truthy(id)

\* processRequest(request) up to its first await (or to its return)
ProcessRequest(rq, ms, hasOnRequest, hasOnError) ==
  LET events0 == IF hasOnRequest THEN <<[e |-> "onRequest", request |-> rq]>> ELSE <<>>
      id == Prop(rq, "id")
      jsonrpc == Prop(rq, "jsonrpc")
      method == Prop(rq, "method")
      params == Prop(rq, "params")
      response == IF Truthy(id) THEN [NewResponse EXCEPT !.id = id] ELSE NewResponse
  IN IF hasOnRequest /\ onRequestThrows THEN Rejected(rq, events0)
     ELSE IF rq.t \in {"undefined", "null"} THEN Rejected(rq, events0)
     ELSE IF Truthy(id) /\ id.t # "null" /\ TypeOf(id) # "number" /\ TypeOf(id) # "string"
     THEN Resolved(rq, [NewResponse EXCEPT
                          !.error = ErrorObject(Num(INVALID_REQUEST), Str(<<"Invalid id">>))],
                   events0)
     ELSE IF ~StrictEq(jsonrpc, Str(<<"2.0">>))
     THEN Resolved(rq, [response EXCEPT
                          !.error = ErrorObject(Num(INVALID_REQUEST), Str(<<"Invalid jsonrpc value">>))],
                   events0)
     ELSE IF IsNotification(id) THEN Resolved(rq, False, events0)
     ELSE IF \/ ~Truthy(method)
             \/ TypeOf(method) # "string"
             \/ StartsWith(method.s, <<"rpc.">>)
             \/ ~In(method.s, ms)
     THEN Resolved(rq, [response EXCEPT !.error = ErrorObject(Num(METHOD_NOT_FOUND), Undefined)],
                   events0)
     ELSE IF Truthy(params) /\ TypeOf(params) # "object"
     THEN Resolved(rq, [response EXCEPT !.error = ErrorObject(Num(INVALID_PARAMS), Undefined)],
                   events0)
     ELSE LET f == Lookup(ms, method.s)
              outcome == Invoke(f, params)
              events1 == Append(events0, [e |-> "call", method |-> method.s, f |-> f, params |-> params])
          IN IF outcome.kind = "throw"
             THEN Catch(rq, response, outcome.v, hasOnError, events1)
             ELSE Awaiting(rq, response, outcome, events1)

\* the events of a sequence of calls, in order
RECURSIVE Events(_)
Events(els) == IF els = <<>> THEN <<>> ELSE Head(els).events \o Events(Tail(els))

\* an element record as the state keeps it
Stored(el) == [request |-> el.request, state |-> el.state, value |-> el.value,
               response |-> el.response, pending |-> el.pending]

(* ------------------------------ actions ------------------------------- *)

NoReq ==
  [url |-> "", method |-> "",
   headers |-> [contentType |-> Undefined, accept |-> Undefined,
                contentLength |-> Undefined, authorization |-> Undefined],
   body |-> [text |-> <<>>, parsed |-> ParseFailure]]

\* a reqHandler that sends the error of a failed check and goes on to listen
\* for the body all the same
ReqHandler_ListensAnyway(r) ==
  /\ pc = "idle"
  /\ LET res0 == [NewRes EXCEPT !.headers.connection = "close"]
         reqErr == CheckRequest(r, path)
     IN IF Truthy(username) /\ ~Authorized(r.headers.authorization)
        THEN res' = SendUnauthorized(res0)
        ELSE IF ~reqErr.none
        THEN res' = SendError(res0, reqErr.statusCode, reqErr.message)
        ELSE res' = res0
  /\ pc' = "reading"
  /\ req' = r
  /\ body' = <<>>
  /\ UNCHANGED <<config, lifecycle, parked, methods, registrations, request, elems, log>>

\* reqHandler(req, res) up to the registration of the 'data' and 'end' listeners
ReqHandler(r) ==
  /\ pc = "idle"
  /\ LET res0 == [NewRes EXCEPT !.headers.connection = "close"]
         reqErr == CheckRequest(r, path)
     IN IF Truthy(username) /\ ~Authorized(r.headers.authorization)
        THEN res' = SendUnauthorized(res0) /\ pc' = "ended"
        ELSE IF ~reqErr.none
        THEN res' = SendError(res0, reqErr.statusCode, reqErr.message) /\ pc' = "ended"
        ELSE res' = res0 /\ pc' = "reading"
  /\ req' = r
  /\ body' = <<>>
  /\ UNCHANGED <<config, lifecycle, parked, methods, registrations, request, elems, log>>

\* the 'data' listener: body.push(chunk), one character a chunk
Data ==
  /\ pc = "reading"
  /\ Len(body) < Len(req.body.text)
  /\ body' = Append(body, req.body.text[Len(body) + 1])
  /\ UNCHANGED <<config, lifecycle, parked, methods, registrations, pc, req, res, request, elems, log>>

\* the comparison of the body's length with the declared Content-Length
LengthMatches(text, cl) == StrictEq(Num(StringLength(text)), ParseInt(cl))

\* a parse error response that leaves the id out
ParseErrorResponse_NoId ==
  [t |-> "response", jsonrpc |-> "2.0", id |-> Undefined, result |-> Undefined,
   error |-> ErrorObject(Num(PARSE_ERROR), Str(<<"err.message">>))]

\* the response the 'end' listener sends when JSON.parse throws
ParseErrorResponse ==
  [t |-> "response", jsonrpc |-> "2.0", id |-> Null, result |-> Undefined,
   error |-> ErrorObject(Num(PARSE_ERROR), Str(<<"err.message">>))]

\* an 'end' listener whose request callback hears only the first element
Calls_FirstOnly(v) ==
  IF v.t = "array"
  THEN [n \in 1..Len(v.a) |-> ProcessRequest(v.a[n], methods, onRequest /\ n = 1, onError)]
  ELSE <<ProcessRequest(v, methods, onRequest, onError)>>

\* the processRequest calls of the 'end' listener, in order
Calls(v) ==
  IF v.t = "array"
  THEN [n \in 1..Len(v.a) |-> ProcessRequest(v.a[n], methods, onRequest, onError)]
  ELSE <<ProcessRequest(v, methods, onRequest, onError)>>

\* the 'end' listener
OnEnd ==
  /\ pc = "reading"
  /\ Len(body) = Len(req.body.text)
  /\ LET parsed == JSONParse(req.body)
         res1 == [res EXCEPT !.headers.contentType = AJ]
     IN IF ~LengthMatches(body, req.headers.contentLength)
        THEN /\ res' = SendError(res, 400, INVALID_CONTENT_LENGTH_MSG)
             /\ pc' = "ended"
             /\ UNCHANGED <<request, elems, log>>
        ELSE IF ~parsed.ok
        THEN /\ res' = SendResponse(res1, ParseErrorResponse)
             /\ pc' = "ended"
             /\ log' = Append(log, [e |-> "JSON.parse"])
             /\ UNCHANGED <<request, elems>>
        ELSE IF parsed.value.t = "array" /\ Len(parsed.value.a) = 0
        THEN /\ res' = SendResponse(res1, Undefined)
             /\ pc' = "ended"
             /\ request' = parsed.value
             /\ log' = Append(log, [e |-> "JSON.parse"])
             /\ UNCHANGED elems
        ELSE /\ res' = res1
             /\ pc' = "processing"
             /\ request' = parsed.value
             /\ elems' = [n \in 1..Len(Calls(parsed.value)) |-> Stored(Calls(parsed.value)[n])]
             /\ log' = Append(log, [e |-> "JSON.parse"]) \o Events(Calls(parsed.value))
  /\ UNCHANGED <<config, lifecycle, parked, methods, registrations, req, body>>

\* a settling that takes the outcome of the handler registered by then, not of
\* the handler that was called
Settle_CurrentHandler(n) ==
  /\ pc = "processing"
  /\ n \in 1..Len(elems)
  /\ elems[n].state = "awaiting"
  /\ LET rq == elems[n].request
         current == Invoke(Lookup(methods, Prop(rq, "method").s), Prop(rq, "params"))
         el == AfterAwait([elems[n] EXCEPT !.pending = current], onError, onResult)
     IN /\ elems' = [elems EXCEPT ![n] = Stored(el)]
        /\ log' = Append(log, [e |-> "settled", n |-> n]) \o el.events
  /\ UNCHANGED <<config, lifecycle, parked, methods, registrations, pc, req, body, res, request>>

\* the handler of call n settles and processRequest runs on from its await;
\* the calls of a batch settle in any order, which the log records
Settle(n) ==
  /\ pc = "processing"
  /\ n \in 1..Len(elems)
  /\ elems[n].state = "awaiting"
  /\ LET el == AfterAwait(elems[n], onError, onResult)
     IN /\ elems' = [elems EXCEPT ![n] = Stored(el)]
        /\ log' = Append(log, [e |-> "settled", n |-> n]) \o el.events
  /\ UNCHANGED <<config, lifecycle, parked, methods, registrations, pc, req, body, res, request>>

\* a pruning that puts each response in front of the earlier ones
Prune_Reversed(els) ==
  LET values == [n \in 1..Len(els) |-> els[n].value]
      kept == SelectSeq(values, Truthy)
      prunedResponses == [k \in 1..Len(kept) |-> kept[Len(kept) + 1 - k]]
  IN IF Len(prunedResponses) = 0 THEN Undefined ELSE Arr(prunedResponses)

\* a pruning that keeps the empty array
Prune_KeepsEmpty(els) ==
  LET values == [n \in 1..Len(els) |-> els[n].value]
  IN Arr(SelectSeq(values, Truthy))

\* the responses an array of settled calls leaves: the truthy ones, in order
Prune(els) ==
  LET values == [n \in 1..Len(els) |-> els[n].value]
      prunedResponses == SelectSeq(values, Truthy)
  IN IF Len(prunedResponses) = 0 THEN Undefined ELSE Arr(prunedResponses)

\* the then-callback of the processRequest promise, or of Promise.all
Respond ==
  /\ pc = "processing"
  /\ \A n \in 1..Len(elems) : elems[n].state = "resolved"
  /\ res' = SendResponse(res, IF request.t = "array" THEN Prune(elems) ELSE elems[1].value)
  /\ pc' = "ended"
  /\ UNCHANGED <<config, lifecycle, parked, methods, registrations, req, body, request, elems, log>>

\* the connection is over (answered, or given up by the client when a promise
\* was rejected and nothing answers); the next request arrives on a new one
Reset ==
  /\ IF pc = "processing" THEN \E n \in 1..Len(elems) : elems[n].state = "rejected"
     ELSE pc = "ended"
  /\ pc' = "idle"
  /\ req' = NoReq
  /\ body' = <<>>
  /\ res' = NewRes
  /\ request' = Undefined
  /\ elems' = <<>>
  /\ log' = <<>>
  /\ UNCHANGED <<config, lifecycle, parked, methods, registrations>>

\* a connection no request has arrived on
NoConnection ==
  [pc |-> "idle", req |-> NoReq, body |-> <<>>, res |-> NewRes, request |-> Undefined,
   elems |-> <<>>, log |-> <<>>]

\* a turn to the other connection that leaves the calls under way where they
\* are, as if the server kept them in one place for all its connections
Switch_SharedCalls ==
  /\ parked' = [pc |-> pc, req |-> req, body |-> body, res |-> res, request |-> parked.request,
                elems |-> parked.elems, log |-> log]
  /\ pc' = parked.pc
  /\ req' = parked.req
  /\ body' = parked.body
  /\ res' = parked.res
  /\ log' = parked.log
  /\ UNCHANGED <<config, lifecycle, methods, registrations, request, elems>>

\* the event loop turns to the other connection: each call of reqHandler has
\* its own req, res and body, and each call of processRequest its own frame,
\* and the listeners of one connection run between the events of the other
Switch ==
  /\ parked' = [pc |-> pc, req |-> req, body |-> body, res |-> res, request |-> request,
                elems |-> elems, log |-> log]
  /\ pc' = parked.pc
  /\ req' = parked.req
  /\ body' = parked.body
  /\ res' = parked.res
  /\ request' = parked.request
  /\ elems' = parked.elems
  /\ log' = parked.log
  /\ UNCHANGED <<config, lifecycle, methods, registrations>>

\* a setMethod without the test of its second argument
SetMethod_Unchecked(name, method) ==
  /\ methods' = (name :> method) @@ methods
  /\ registrations' = (name :> method) @@ registrations
  /\ UNCHANGED <<config, lifecycle, parked, pc, req, body, res, request, elems, log>>

\* a setMethod that leaves a name that is registered already as it is
SetMethod_KeepsFirst(name, method) ==
  /\ IF TypeOf(method) # "function"
     THEN UNCHANGED <<methods, registrations>>
     ELSE /\ methods' = methods @@ (name :> method)
          /\ registrations' = (name :> method) @@ registrations
  /\ UNCHANGED <<config, lifecycle, parked, pc, req, body, res, request, elems, log>>

\* setMethod(name, method)
SetMethod(name, method) ==
  /\ IF TypeOf(method) # "function"
     THEN UNCHANGED <<methods, registrations>>
     ELSE /\ methods' = (name :> method) @@ methods
          /\ registrations' = (name :> method) @@ registrations
  /\ UNCHANGED <<config, lifecycle, parked, pc, req, body, res, request, elems, log>>

(* ---------------------------- construction --------------------------- *)

\* the text of a string given by its fragments
RECURSIVE Text(_)
Text(s) == IF s = <<>> THEN "" ELSE Head(s) \o Text(Tail(s))

\* the fragments made only of characters the path pattern allows
PathCharacters == {"/", "testpath", "invalid"}

\* the message of the Error the constructor throws for these options, "" when
\* it throws none
ConstructorError(o) ==
  LET ms == Prop(o, "methods")
      p == Prop(o, "path")
      onReq == Prop(o, "onRequest")
      onErr == Prop(o, "onError")
  IN IF ~Truthy(o) THEN ""
     ELSE IF Truthy(ms) /\ (TypeOf(ms) # "object" \/ ms.t = "array")
     THEN "methods must be an object"
     ELSE IF Truthy(ms) /\ \E k \in DOMAIN ms.o : TypeOf(ms.o[k]) # "function"
     THEN "methods may only contain functions"
     ELSE IF Truthy(p) /\ TypeOf(p) # "string"
     THEN "path must be a string"
     ELSE IF Truthy(p) /\ ~StartsWith(p.s, <<"/">>)
     THEN "path must start with a \"/\" slash"
     ELSE IF Truthy(p) /\ \E i \in 1..Len(p.s) : p.s[i] \notin PathCharacters
     THEN "path contains invalid characters"
     ELSE IF Truthy(onReq) /\ TypeOf(onReq) # "function"
     THEN "onRequest must be a function"
     ELSE IF Truthy(onErr) /\ TypeOf(onErr) # "function"
     THEN "onError must be a function"
     ELSE ""

\* this.methods for a methods option: the option's own properties, or {}
MethodsOf(ms) ==
  IF Truthy(ms) THEN [name \in {<<k>> : k \in DOMAIN ms.o} |-> ms.o[name[1]]] ELSE <<>>

\* http.createServer(...).on('error', ...): a server with no handle, no
\* once-listener and nothing to emit
NewServer == [handle |-> FALSE, once |-> {}, queue |-> <<>>]

\* new RpcServer(options)
Construct ==
  /\ instance = "none"
  /\ IF ConstructorError(options) # ""
     THEN /\ instance' = "threw"
          /\ UNCHANGED <<path, onRequest, onError, methods, server>>
     ELSE /\ instance' = "created"
          /\ methods' = MethodsOf(Prop(options, "methods"))
          /\ path' = IF Truthy(Prop(options, "path")) THEN Text(Prop(options, "path").s) ELSE "/"
          /\ onRequest' = Truthy(Prop(options, "onRequest"))
          /\ onError' = Truthy(Prop(options, "onError"))
          /\ server' = NewServer
  /\ options' = Undefined
  /\ UNCHANGED <<username, onResult, onRequestThrows, registrations, promises,
                 pc, req, body, res, request, elems, log, parked>>

(* --------------------------- listen and close ------------------------- *)

\* server.listenerCount('error'): the constructor's listener and the
\* once-listeners of listen and close
ErrorListeners(srv) == 1 + Cardinality({l \in srv.once : l.event = "error"})

\* a once-listener: the event it waits for and what it does to which promise
Listener(event, i, settle) == [event |-> event, promise |-> i, settle |-> settle]

\* .once('error', (err) => { reject(err); })
OnceError(srv, i) == [srv EXCEPT !.once = @ \cup {Listener("error", i, "rejected")}]

\* the test of listen that rejects the port
InvalidPort(port) ==
  \/ ~Truthy(port)
  \/ TypeOf(port) # "number"
  \/ port.n < 1024
  \/ port.n > 65535

\* the port server.listen binds: an absent port and 0 ask for any free port,
\* a string of digits is its number
PortNumber(port) ==
  CASE port.t \in {"undefined", "null"} -> 0
    [] port.t = "string" -> ParseInt(port).n
    [] OTHER -> port.n

\* new Error('must provide a valid port number between 1024 and 65535')
InvalidPortError ==
  Error("Error", Str(<<"must provide a valid port number between 1024 and 65535">>), Undefined)

\* what server.listen throws: on a server that has a handle, or for a port out
\* of range
ListenError(srv, port) ==
  IF srv.handle THEN Error("Error", Str(<<"Listen method has been called more than once">>),
                           Str(<<"ERR_SERVER_ALREADY_LISTEN">>))
  ELSE Error("RangeError", Str(<<"Port should be >= 0 and < 65536">>),
             Str(<<"ERR_SOCKET_BAD_PORT">>))

\* what a promise is settled with by a callback of listen or close:
\* resolve(true), or reject(err) with the error the server emitted
Settlement(settle) ==
  IF settle = "resolved" THEN Bool(TRUE)
  ELSE Error("Error", Str(<<"listen EADDRINUSE">>), Str(<<"EADDRINUSE">>))

\* listen(port); `free` tells whether the port can be bound
Listen(port, free) ==
  /\ instance = "created"
  /\ Len(promises) < MaxCalls
  /\ LET i == Len(promises) + 1
         rejects == InvalidPort(port)
         \* server.listen throws when the server has a handle already and
         \* when the port is out of range; the executor's throw rejects
         throws == server.handle \/ PortNumber(port) \notin 0..65535
         binds == ~throws /\ (free \/ PortNumber(port) = 0)
         srv1 == [server EXCEPT
                    !.once = @ \cup {Listener("listening", i, "resolved")},
                    !.handle = binds,
                    !.queue = Append(@, IF binds THEN "listening" ELSE "error")]
     IN /\ promises' = Append(promises,
                              [op |-> "listen",
                               port |-> port,
                               state |-> IF rejects \/ throws THEN "rejected" ELSE "pending",
                               value |-> IF rejects THEN InvalidPortError
                                         ELSE IF throws THEN ListenError(server, port)
                                         ELSE Undefined,
                               opened |-> binds])
        /\ server' = IF throws THEN server ELSE OnceError(srv1, i)
  /\ UNCHANGED <<config, methods, registrations, options, instance,
                 pc, req, body, res, request, elems, log, parked>>

\* close(): server.close gives up the handle and emits 'close', also when the
\* server was not listening
Close ==
  /\ instance = "created"
  /\ Len(promises) < MaxCalls
  /\ LET i == Len(promises) + 1
         srv1 == [server EXCEPT
                    !.once = @ \cup {Listener("close", i, "resolved")},
                    !.handle = FALSE,
                    !.queue = Append(@, "close")]
     IN /\ promises' = Append(promises,
                              [op |-> "close", port |-> Undefined, state |-> "pending",
                               value |-> Undefined, opened |-> FALSE])
        /\ server' = OnceError(srv1, i)
  /\ UNCHANGED <<config, methods, registrations, options, instance,
                 pc, req, body, res, request, elems, log, parked>>

\* the server emits the next event it was to emit: the once-listeners of the
\* event run and are removed, and a settled promise stays as it is.  A
\* 'listening' whose handle is closed by then is not emitted.
Emit ==
  /\ server.queue # <<>>
  /\ LET event == Head(server.queue)
         fired == IF event = "listening" /\ ~server.handle THEN {}
                  ELSE {l \in server.once : l.event = event}
     IN /\ server' = [server EXCEPT !.queue = Tail(@), !.once = @ \ fired]
        /\ promises' = [i \in DOMAIN promises |->
                          IF promises[i].state = "pending" /\ \E l \in fired : l.promise = i
                          THEN LET settle == (CHOOSE l \in fired : l.promise = i).settle
                               IN [promises[i] EXCEPT !.state = settle,
                                                      !.value = Settlement(settle)]
                          ELSE promises[i]]
  /\ UNCHANGED <<config, methods, registrations, options, instance,
                 pc, req, body, res, request, elems, log, parked>>

(* ------------------------------- inputs ------------------------------- *)

TestUser == Str(<<"test">>)

\* the server configurations of the tests
Configs ==
  { <<"/", Undefined, FALSE, FALSE, FALSE>>,
    <<"/testpath", Undefined, FALSE, FALSE, FALSE>>,
    <<"/", Undefined, TRUE, TRUE, TRUE>>,
    <<"/", TestUser, FALSE, FALSE, FALSE>> }

InitialMethods ==
  (<<"sum">> :> Fn("sum")) @@ (<<"wait">> :> Fn("wait")) @@ (<<"notify">> :> Fn("notify"))

SetNames == {<<"sum">>, <<"late">>}
SetValues == {Fn("wait"), Str(<<"not a function">>)}

\* all sequences over S of length at most n
RECURSIVE SeqsUpTo(_, _)
SeqsUpTo(S, n) ==
  IF n = 0 THEN {<<>>}
  ELSE LET shorter == SeqsUpTo(S, n - 1)
       IN shorter \cup {Append(q, x) : q \in {p \in shorter : Len(p) = n - 1}, x \in S}

\* the Content-Length header of a body of n characters
Decimal(n) == Str(<<Digits[n + 1]>>)

RpcRequest(id, jsonrpc, method, params) ==
  Obj([id |-> id, jsonrpc |-> jsonrpc, method |-> method, params |-> params])

V2 == Str(<<"2.0">>)
Numbers == Arr(<<Num(1), Num(2)>>)
Letters == Arr(<<Str(<<"a">>)>>)

ValidCall == RpcRequest(Num(1), V2, Str(<<"sum">>), Numbers)

Ids == {Undefined, Null, Num(0), Num(1), Str(<<>>), Str(<<"a">>), Bool(FALSE), Bool(TRUE), Arr(<<>>)}
Versions == {V2, Str(<<"1.0">>), Undefined}
MethodValues ==
  {Undefined, Str(<<"sum">>), Str(<<"notify">>), Str(<<"wait">>), Str(<<"late">>),
   Str(<<"rpc.", "sum">>), Str(<<>>), Num(123), Str(<<"toString">>)}
ParamValues ==
  {Undefined, Numbers, Letters, Str(<<"bad">>), Obj([message |-> Str(<<"m">>)]), Num(0)}

\* every request object over the values above, and values that are no objects
Elements ==
  {RpcRequest(id, v, m, p) : id \in Ids, v \in Versions, m \in MethodValues, p \in ParamValues}
  \cup {Null, Num(1), Str(<<"a">>), Bool(TRUE)}

\* the elements batches are made of
BatchElements ==
  { ValidCall,
    RpcRequest(Str(<<"a">>), V2, Str(<<"sum">>), Letters),
    RpcRequest(Num(2), V2, Str(<<"wait">>), Obj([ms |-> Num(1)])),
    RpcRequest(Undefined, V2, Str(<<"notify">>), Obj([message |-> Str(<<"m">>)])),
    RpcRequest(Num(0), V2, Str(<<"sum">>), Numbers),
    RpcRequest(Undefined, Str(<<"1.0">>), Str(<<"sum">>), Numbers),
    Num(1),
    Null }

Urls == {"/", "/testpath", "/invalidpath"}
HttpMethods == {"POST", "GET"}
ContentTypes ==
  {Undefined, Str(<<AJ>>), Str(<<AJ, ";", " ", "charset=utf-8">>), Str(<<"text/plain">>)}
Accepts ==
  {Undefined, Str(<<AJ>>), Str(<<"text/plain">>),
   Str(<<"text/plain", ",", " ", AJ, ",", " ", "application/xml", ";", "q=0.9">>)}
ContentLengths == {Undefined, Str(<<"x">>), Str(<<"-", "1">>), Str(<<"1">>)}
Authorizations ==
  {Undefined, Credentials(TestUser, password), Credentials(Str(<<"wrong">>), Str(<<"credentials">>)),
   Str(<<"test", ":", "wasspord">>)}

Request(url, method, ct, accept, cl, authorization, text, parsed) ==
  [url |-> url, method |-> method,
   headers |-> [contentType |-> ct, accept |-> accept, contentLength |-> cl,
                authorization |-> authorization],
   body |-> [text |-> text, parsed |-> parsed]]

\* a request that passes every check of the server it is sent to
Good(url, text, parsed) ==
  Request(url, "POST", Str(<<AJ>>), Str(<<AJ>>), Decimal(Len(text)),
          Credentials(TestUser, password), text, parsed)

\* requests whose url, method and headers vary
TransportRequests ==
  {Request(url, m, ct, a, cl, au, <<"a">>, Parsed(ValidCall)) :
     url \in Urls, m \in HttpMethods, ct \in ContentTypes, a \in Accepts,
     cl \in ContentLengths, au \in Authorizations}

\* requests whose body and declared length vary
BodyRequests ==
  {Request("/", "POST", Str(<<AJ>>), Str(<<AJ>>), Decimal(n), Credentials(TestUser, password),
           b[1], b[2]) :
     n \in 0..(MaxBody + 1),
     b \in {c \in SeqsUpTo(BodyChars, MaxBody) \X {ParseFailure, Parsed(ValidCall)} :
              c[1] = <<>> => c[2] = ParseFailure}}

\* requests whose JSON value varies
RpcRequests ==
  {Good("/", <<"a">>, Parsed(v)) : v \in Elements}
  \cup {Good("/", <<"a">>, Parsed(Arr(b))) : b \in SeqsUpTo(BatchElements, MaxBatch)}

Requests == TransportRequests \cup BodyRequests \cup RpcRequests

\* the fragments header values are made of
Fragments == {AJ, ";", ",", " ", "x", "-", "0", "1"}
HeaderValues == {Undefined} \cup {Str(s) : s \in SeqsUpTo(Fragments, MaxHdrLen)}

\* the request of the tests: a good request for the default server
ValidRequest ==
  Request("/", "POST", Str(<<AJ>>), Str(<<AJ>>), Decimal(1), Credentials(TestUser, password),
          <<"a">>, Parsed(ValidCall))

\* requests that are good but for one header, which is any header value
HeaderRequests ==
  {[ValidRequest EXCEPT !.headers[h] = v] :
     h \in {"contentType", "accept", "contentLength"}, v \in HeaderValues}

\* handlers that fail with the value they are given: one throws it, the other
\* returns a promise rejected with it
ErrorMethods ==
  (<<"throws">> :> Fn("throws")) @@ (<<"rejects">> :> Fn("rejects"))

\* the `code` members of the values thrown: none, the bounds of the band and
\* their neighbours, a code inside it, codes far from it, and strings
ThrownCodes ==
  {Undefined, Num(-32000), Num(-32099), Num(-32050), Num(-31999), Num(-32100), Num(0), Num(1),
   Str(<<"ERR_ASSERTION">>), Str(<<"-", "3", "2", "0", "5", "0">>)}

\* the values thrown: objects with and without message and code, and values
\* that are no objects
ThrownValues ==
  {Obj([code |-> c, message |-> m]) : c \in ThrownCodes, m \in {Undefined, Str(<<"failed">>)}}
  \cup {Undefined, Null, Num(0), Str(<<>>), Bool(FALSE)}

\* requests whose handler fails
ErrorRequests ==
  {Good("/", <<"a">>, Parsed(RpcRequest(id, V2, m, v))) :
     id \in {Num(1), Str(<<"a">>), Num(0)},
     m \in {Str(<<"throws">>), Str(<<"rejects">>)},
     v \in ThrownValues}

\* the names and the values setMethod is called with: two functions and a
\* value that is no function
RegistryNames == {<<"sum">>, <<"late">>}
RegistryValues == {Fn("wait"), Fn("notify"), Str(<<"not a function">>)}

\* calls of the methods registered at construction or later
RegistryRequests ==
  {Good("/", <<"a">>, Parsed(RpcRequest(Num(1), V2, Str(m), Numbers))) :
     m \in RegistryNames \cup {<<"wait">>}}
  \cup {Good("/", <<"a">>, Parsed(Arr(<<RpcRequest(Num(1), V2, Str(<<"sum">>), Numbers),
                                         RpcRequest(Num(2), V2, Str(<<"late">>), Numbers)>>)))}

\* the requests two clients send at the same time: calls of each handler with
\* ids of their own, a notification, a batch, a call of no method, a body that
\* is no JSON and a request the transport checks turn down
ConcurrentRequests ==
  { Good("/", <<"a">>, Parsed(ValidCall)),
    Good("/", <<"a">>, Parsed(RpcRequest(Num(2), V2, Str(<<"wait">>), Obj([ms |-> Num(1)])))),
    Good("/", <<"a">>, Parsed(RpcRequest(Undefined, V2, Str(<<"notify">>),
                                         Obj([message |-> Str(<<"m">>)])))),
    Good("/", <<"a">>, Parsed(RpcRequest(Str(<<"a">>), V2, Str(<<"late">>), Numbers))),
    Good("/", <<"a">>, Parsed(Arr(<<ValidCall,
                                    RpcRequest(Num(2), V2, Str(<<"wait">>),
                                               Obj([ms |-> Num(1)]))>>))),
    Good("/", <<"a">>, ParseFailure),
    [ValidRequest EXCEPT !.method = "GET"] }

\* the options of the constructor calls of the tests, and falsy values in
\* their places
MethodsOptions ==
  {Undefined, Num(0), Bool(FALSE), Str(<<"here are some methods">>), Arr(<<>>), Obj(<<>>),
   Obj([sum |-> Fn("sum")]), Obj([method1 |-> Str(<<"not a function">>)])}
PathOptions ==
  {Undefined, Num(0), Num(1), Str(<<>>), Str(<<"/">>), Str(<<"/", "testpath">>),
   Str(<<"testpath">>), Str(<<"/", "invalid", "<", ">">>)}
CallbackOptions == {Undefined, Num(0), Str(<<"not a function">>), Fn("callback")}

ConstructorOptions ==
  {Undefined}
  \cup {Obj([methods |-> ms, path |-> p, onRequest |-> onReq, onError |-> onErr]) :
          ms \in MethodsOptions, p \in PathOptions,
          onReq \in CallbackOptions, onErr \in CallbackOptions}

\* the ports listen is called with: none, any free port, a privileged port, a
\* valid port, a port out of range, and a valid port as a string
ListenPorts ==
  {Undefined, Num(0), Num(80), Num(8080), Num(66666), Str(<<"8", "0", "8", "0">>)}

(* --------------------------- specifications --------------------------- *)

Init ==
  /\ \E c \in Configs :
       /\ path = c[1]
       /\ username = c[2]
       /\ onRequest = c[3]
       /\ onError = c[4]
       /\ onResult = c[5]
  /\ onRequestThrows = FALSE
  /\ methods = InitialMethods
  /\ registrations = <<>>
  /\ options = Undefined
  /\ instance = "created"
  /\ server = NewServer
  /\ promises = <<>>
  /\ pc = "idle"
  /\ req = NoReq
  /\ body = <<>>
  /\ res = NewRes
  /\ request = Undefined
  /\ elems = <<>>
  /\ log = <<>>
  /\ parked = NoConnection

\* a request arrives at the server, which handles one request at a time
Receive == pc = "idle" /\ \E r \in Requests : ReqHandler(r)

Next ==
  \/ Receive
  \/ Data
  \/ OnEnd
  \/ \E n \in 1..(MaxBatch + 1) : Settle(n)
  \/ Respond
  \/ Reset
  \/ \E name \in SetNames, method \in SetValues : SetMethod(name, method)

Spec == Init /\ [][Next]_vars

\* a request arrives whose headers are any header values
ReceiveHeaders == pc = "idle" /\ \E r \in HeaderRequests : ReqHandler(r)

NextHeaders ==
  \/ ReceiveHeaders
  \/ Data
  \/ OnEnd
  \/ \E n \in 1..(MaxBatch + 1) : Settle(n)
  \/ Respond
  \/ Reset

SpecHeaders == Init /\ [][NextHeaders]_vars

\* a server whose handlers fail, with and without an error callback
InitErrors ==
  /\ path = "/"
  /\ username = Undefined
  /\ onRequest = FALSE
  /\ onError \in BOOLEAN
  /\ onResult = FALSE
  /\ onRequestThrows = FALSE
  /\ methods = ErrorMethods
  /\ registrations = <<>>
  /\ options = Undefined
  /\ instance = "created"
  /\ server = NewServer
  /\ promises = <<>>
  /\ pc = "idle"
  /\ req = NoReq
  /\ body = <<>>
  /\ res = NewRes
  /\ request = Undefined
  /\ elems = <<>>
  /\ log = <<>>
  /\ parked = NoConnection

\* a request arrives whose handler fails
ReceiveErrors == pc = "idle" /\ \E r \in ErrorRequests : ReqHandler(r)

NextErrors ==
  \/ ReceiveErrors
  \/ Data
  \/ OnEnd
  \/ \E n \in 1..(MaxBatch + 1) : Settle(n)
  \/ Respond
  \/ Reset

SpecErrors == InitErrors /\ [][NextErrors]_vars

\* the same server when the client sends its body, every handler called
\* settles, and the callbacks of settled promises run
SpecErrorsFair ==
  /\ SpecErrors
  /\ WF_vars(Data)
  /\ WF_vars(OnEnd)
  /\ \A n \in 1..(MaxBatch + 1) : WF_vars(Settle(n))
  /\ WF_vars(Respond)

\* a server with the methods of the tests and no callback
InitRegistry ==
  /\ path = "/"
  /\ username = Undefined
  /\ onRequest = FALSE
  /\ onError = FALSE
  /\ onResult = FALSE
  /\ onRequestThrows = FALSE
  /\ methods = InitialMethods
  /\ registrations = <<>>
  /\ options = Undefined
  /\ instance = "created"
  /\ server = NewServer
  /\ promises = <<>>
  /\ pc = "idle"
  /\ req = NoReq
  /\ body = <<>>
  /\ res = NewRes
  /\ request = Undefined
  /\ elems = <<>>
  /\ log = <<>>
  /\ parked = NoConnection

\* a call of a registered method arrives
ReceiveRegistry == pc = "idle" /\ \E r \in RegistryRequests : ReqHandler(r)

NextRegistry ==
  \/ ReceiveRegistry
  \/ Data
  \/ OnEnd
  \/ \E n \in 1..(MaxBatch + 1) : Settle(n)
  \/ Respond
  \/ Reset
  \/ \E name \in RegistryNames, method \in RegistryValues : SetMethod(name, method)

SpecRegistry == InitRegistry /\ [][NextRegistry]_vars

\* a request arrives on the connection at hand while the other one waits
ReceiveConcurrent == pc = "idle" /\ \E r \in ConcurrentRequests : ReqHandler(r)

NextConcurrent ==
  \/ ReceiveConcurrent
  \/ Data
  \/ OnEnd
  \/ \E n \in 1..(MaxBatch + 1) : Settle(n)
  \/ Respond
  \/ Reset
  \/ Switch

\* two connections to a server with the methods of the tests
SpecConcurrent == InitRegistry /\ [][NextConcurrent]_vars

\* a server with a request callback, which throws or does not
InitCallbacks ==
  /\ path = "/"
  /\ username = Undefined
  /\ onRequest = TRUE
  /\ onError = FALSE
  /\ onResult = FALSE
  /\ onRequestThrows \in BOOLEAN
  /\ methods = InitialMethods
  /\ registrations = <<>>
  /\ options = Undefined
  /\ instance = "created"
  /\ server = NewServer
  /\ promises = <<>>
  /\ pc = "idle"
  /\ req = NoReq
  /\ body = <<>>
  /\ res = NewRes
  /\ request = Undefined
  /\ elems = <<>>
  /\ log = <<>>
  /\ parked = NoConnection

\* two connections to a server with a request callback
SpecCallbacks == InitCallbacks /\ [][NextConcurrent]_vars

\* the constructor is about to be called with any of the options
InitConstructor ==
  /\ options \in ConstructorOptions
  /\ instance = "none"
  /\ path = "/"
  /\ username = Undefined
  /\ onRequest = FALSE
  /\ onError = FALSE
  /\ onResult = FALSE
  /\ onRequestThrows = FALSE
  /\ methods = <<>>
  /\ registrations = <<>>
  /\ server = NewServer
  /\ promises = <<>>
  /\ pc = "idle"
  /\ req = NoReq
  /\ body = <<>>
  /\ res = NewRes
  /\ request = Undefined
  /\ elems = <<>>
  /\ log = <<>>
  /\ parked = NoConnection

NextConstructor == Construct

SpecConstructor == InitConstructor /\ [][NextConstructor]_vars

\* a server is constructed with any of the options and then, when the
\* constructor did not throw, takes requests and setMethod calls
NextInstance ==
  \/ Construct
  \/ instance = "created" /\ ReceiveRegistry
  \/ Data
  \/ OnEnd
  \/ \E n \in 1..(MaxBatch + 1) : Settle(n)
  \/ Respond
  \/ Reset
  \/ /\ instance = "created"
     /\ \E name \in RegistryNames, method \in RegistryValues : SetMethod(name, method)

SpecInstance == InitConstructor /\ [][NextInstance]_vars

\* a server made by `new RpcServer()`, on which listen and close are called
InitLifecycle ==
  /\ path = "/"
  /\ username = Undefined
  /\ onRequest = FALSE
  /\ onError = FALSE
  /\ onResult = FALSE
  /\ onRequestThrows = FALSE
  /\ methods = <<>>
  /\ registrations = <<>>
  /\ options = Undefined
  /\ instance = "created"
  /\ server = NewServer
  /\ promises = <<>>
  /\ pc = "idle"
  /\ req = NoReq
  /\ body = <<>>
  /\ res = NewRes
  /\ request = Undefined
  /\ elems = <<>>
  /\ log = <<>>
  /\ parked = NoConnection

NextLifecycle ==
  \/ \E port \in ListenPorts, free \in BOOLEAN : Listen(port, free)
  \/ Close
  \/ Emit

SpecLifecycle == InitLifecycle /\ [][NextLifecycle]_vars

\* the server emits what it has to emit: Node emits 'listening', 'error' and
\* 'close' on the next tick
SpecLifecycleFair == SpecLifecycle /\ WF_vars(Emit)

(* ------------------------- notifications and ids ---------------------- *)

\* the element is a request object without an `id` key
NoIdKey(rq) == rq.t = "object" /\ Prop(rq, "id").t = "undefined"

\* the element's jsonrpc member is the string "2.0"
Version2(rq) == Prop(rq, "jsonrpc").t = "string" /\ Prop(rq, "jsonrpc").s = <<"2.0">>

\* the element names a method the constructor registered and its params are
\* absent, an array or an object
Callable(rq) ==
  /\ Prop(rq, "method").t = "string"
  /\ Prop(rq, "method").s \in {<<"sum">>, <<"wait">>, <<"notify">>}
  /\ Prop(rq, "params").t \in {"undefined", "array", "object"}

\* call n has returned a response object
Answered(n) == elems[n].state = "resolved" /\ elems[n].value.t = "response"

\* the handler calls logged so far
HandlerCalls == {k \in 1..Len(log) : log[k].e = "call"}

\* the request is one request object, not a batch, and it has been answered
SingleDone == pc = "ended" /\ request.t = "object"

\* C1 as stated: no response object is ever produced for an element without an
\* `id` key, whatever its jsonrpc value, method and params.
C1_Silent_AsStated ==
  \A n \in 1..Len(elems) :
    (NoIdKey(elems[n].request) /\ elems[n].state = "resolved") => ~Answered(n)

\* C1 amended: an element without an `id` key whose jsonrpc is "2.0" never
\* gets a response object, whatever its method and params, and a single such
\* request is answered 204 with no body.
C1_Silent ==
  /\ \A n \in 1..Len(elems) :
       (NoIdKey(elems[n].request) /\ Version2(elems[n].request)) => ~Answered(n)
  /\ (SingleDone /\ NoIdKey(request) /\ Version2(request))
       => (res.statusCode = 204 /\ res.body = NoBody /\ res.headers.contentLength = "0")

\* a notification with an unknown method has been answered 204
C1_Witness ==
  /\ SingleDone /\ NoIdKey(request) /\ Version2(request)
  /\ Prop(request, "method") = Str(<<"late">>)
  /\ <<"late">> \notin DOMAIN methods
  /\ res.statusCode = 204

\* C2: a notification with jsonrpc "2.0", a registered method and valid params
\* has its handler invoked exactly once, with the request's params.
C2_NotificationInvoked ==
  (SingleDone /\ NoIdKey(request) /\ Version2(request) /\ Callable(request))
    => /\ Cardinality(HandlerCalls) = 1
       /\ \A k \in HandlerCalls :
            log[k].method = Prop(request, "method").s /\ log[k].params = Prop(request, "params")

\* C3: a request with an id that is a string, a number or null (0, null and ""
\* among them), jsonrpc "2.0", a registered method and valid params is answered
\* with a response whose id is the request's id.
C3_IdEchoed ==
  (/\ SingleDone
   /\ Prop(request, "id").t \in {"string", "number", "null"}
   /\ Version2(request) /\ Callable(request))
    => /\ res.body.kind = "json"
       /\ res.body.value.t = "response"
       /\ res.body.value.id = Prop(request, "id")

\* C4: a processed element is answered with a response object if and only if
\* its id is present and not null.
C4_ResponseIffId ==
  \A n \in 1..Len(elems) :
    (elems[n].request.t = "object" /\ elems[n].state = "resolved")
      => (Answered(n) <=> Prop(elems[n].request, "id").t \notin {"undefined", "null"})

(* -------------------------- transport checks -------------------------- *)

\* nothing of the request has reached the dispatcher
NotDispatched == request = Undefined /\ elems = <<>> /\ log = <<>> /\ body = <<>>

\* the request has been rejected with this status and this diagnostic body
Refused(status, message) ==
  /\ pc = "ended"
  /\ res.ended
  /\ res.statusCode = status
  /\ res.body = IF message = "" THEN NoBody ELSE [kind |-> "error", error |-> message]
  /\ NotDispatched

\* the header `Basic base64(test:wasspord)`, written out
TestCredentials == Str(<<"Basic ", "base64(", "test", ":", "wasspord", ")">>)

\* the request carries the credentials the server asks for, if it asks for any
PastAuthentication == username.t = "undefined" \/ req.headers.authorization = TestCredentials

C5_GoodContentTypes == {Str(<<AJ>>), Str(<<AJ, ";", " ", "charset=utf-8">>)}
C5_GoodAccepts ==
  {Str(<<AJ>>),
   Str(<<"text/plain", ",", " ", AJ, ",", " ", "application/xml", ";", "q=0.9">>)}
C5_BadContentLengths == {Undefined, Str(<<"x">>), Str(<<"-", "1">>)}

\* C5: the checks run in the order path, method, Content-Type, Accept,
\* Content-Length, and a rejected request gets the status of the first check
\* that fails (404, 405, 415, 400, 400), whichever checks fail together.
C5_FirstFailingCheck ==
  (pc # "idle" /\ PastAuthentication)
    => IF req.url # path THEN Refused(404, "")
       ELSE IF req.method # "POST" THEN Refused(405, "")
       ELSE IF req.headers.contentType \notin C5_GoodContentTypes THEN Refused(415, "")
       ELSE IF req.headers.accept \notin C5_GoodAccepts
       THEN Refused(400, INVALID_ACCEPT_HEADER_MSG)
       ELSE IF req.headers.contentLength \in C5_BadContentLengths
       THEN Refused(400, INVALID_CONTENT_LENGTH_MSG)
       ELSE res.statusCode \notin {404, 405, 415} /\ ~Refused(400, INVALID_ACCEPT_HEADER_MSG)

\* a GET with a bad Content-Type, no Accept and no Content-Length is answered 405
C5_Witness ==
  /\ pc = "ended" /\ PastAuthentication
  /\ req.url = path /\ req.method = "GET"
  /\ req.headers.contentType = Str(<<"text/plain">>)
  /\ req.headers.accept = Undefined
  /\ req.headers.contentLength = Undefined
  /\ res.statusCode = 405

\* C6: with a user name configured, a request whose Authorization header is
\* not `Basic base64(username:password)` is answered 401 with the header
\* WWW-Authenticate: Basic realm="<realm>", whatever else it carries, and is
\* never dispatched; a request with the credentials goes on to the other checks.
C6_AuthenticationFirst ==
  (pc # "idle" /\ username.t # "undefined")
    => IF req.headers.authorization # TestCredentials
       THEN /\ Refused(401, "")
            /\ res.headers.wwwAuthenticate = <<"Basic realm=\"", "testrealm", "\"">>
       ELSE /\ res.statusCode # 401
            /\ res.headers.wwwAuthenticate = <<>>
            /\ req.url # path => Refused(404, "")
            /\ (req.url = path /\ req.method # "POST") => Refused(405, "")

\* a request for an unknown path with wrong credentials is answered 401
C6_Witness ==
  /\ pc = "ended" /\ username.t # "undefined"
  /\ req.url = "/invalidpath" /\ req.method = "GET"
  /\ req.headers.authorization = Str(<<"Basic ", "base64(", "wrong", ":", "credentials", ")">>)
  /\ res.statusCode = 401

\* the request reaches the Content-Type check
ReachesContentType == pc # "idle" /\ PastAuthentication /\ req.url = path /\ req.method = "POST"

\* the value is `application/json`, or begins with `application/json;`
C7_Acceptable(ct) ==
  /\ ct.t = "string"
  /\ \/ ct.s = <<AJ>>
     \/ Len(ct.s) >= 2 /\ ct.s[1] = AJ /\ ct.s[2] = ";"

\* C7: a request passes the Content-Type check if and only if the header is
\* present and is `application/json` or begins with `application/json;`;
\* otherwise it is answered 415.
C7_ContentType ==
  ReachesContentType => (Refused(415, "") <=> ~C7_Acceptable(req.headers.contentType))

\* a request with a parameter after `application/json;` is being read
C7_Witness ==
  /\ pc = "reading"
  /\ req.headers.contentType = Str(<<AJ, ";", "x">>)

\* positions i..j of s are one entry of the comma-separated list s
C8_Entry(s, i, j) ==
  /\ \A k \in i..j : s[k] # ","
  /\ i = 1 \/ s[i - 1] = ","
  /\ j = Len(s) \/ s[j + 1] = ","

\* an entry of the list is `application/json`, or begins with
\* `application/json;`, once the spaces around it are dropped
C8_Acceptable(a) ==
  /\ a.t = "string"
  /\ \E i \in 1..Len(a.s), j \in 1..Len(a.s) :
       /\ i <= j
       /\ C8_Entry(a.s, i, j)
       /\ \E k \in i..j :
            /\ a.s[k] = AJ
            /\ \A m \in i..(k - 1) : a.s[m] = " "
            /\ \/ \A m \in (k + 1)..j : a.s[m] = " "
               \/ k + 1 <= j /\ a.s[k + 1] = ";"

\* C8: a request passes the Accept check if and only if the header is present
\* and one entry of its comma-separated list is, trimmed, `application/json`
\* or begins with `application/json;`; otherwise it is answered 400 with the
\* Accept diagnostic.
C8_Accept ==
  (ReachesContentType /\ C7_Acceptable(req.headers.contentType))
    => (Refused(400, INVALID_ACCEPT_HEADER_MSG) <=> ~C8_Acceptable(req.headers.accept))

\* a request whose Accept lists `application/json` second is being read
C8_Witness ==
  /\ pc = "reading"
  /\ req.headers.accept = Str(<<"x", ",", AJ>>)

\* the number of spaces s begins with
C9_Spaces(s) ==
  CHOOSE k \in 0..Len(s) : (\A i \in 1..k : s[i] = " ") /\ (k = Len(s) \/ s[k + 1] # " ")

\* the value is absent, or no integer, or a negative integer
C9_Unusable(cl) ==
  \/ cl.t = "undefined"
  \/ LET s == cl.s
         b == C9_Spaces(s) + 1
         minus == b <= Len(s) /\ s[b] = "-"
         d == IF minus THEN b + 1 ELSE b
     IN \/ d > Len(s)
        \/ s[d] \notin {"0", "1", "2", "3", "4", "5", "6", "7", "8", "9"}
        \/ minus /\ \E e \in d..Len(s) :
                      /\ s[e] \in {"1", "2", "3", "4", "5", "6", "7", "8", "9"}
                      /\ \A i \in d..e : s[i] \in {"0", "1", "2", "3", "4", "5", "6", "7", "8", "9"}

\* C9: a request whose Content-Length is absent, is no integer or is negative
\* is answered 400 with the Content-Length diagnostic, and its body is neither
\* parsed nor dispatched.
C9_ContentLength ==
  (/\ ReachesContentType
   /\ C7_Acceptable(req.headers.contentType)
   /\ C8_Acceptable(req.headers.accept)
   /\ C9_Unusable(req.headers.contentLength))
    => Refused(400, INVALID_CONTENT_LENGTH_MSG)

\* a request declaring the length -1 is answered 400
C9_Witness ==
  /\ req.headers.contentLength = Str(<<"-", "1">>)
  /\ req.headers.contentType = Str(<<AJ>>) /\ req.headers.accept = Str(<<AJ>>)
  /\ ReachesContentType
  /\ Refused(400, INVALID_CONTENT_LENGTH_MSG)

\* the Content-Length the request declares, a digit
C10_Declared == CHOOSE n \in 0..9 : req.headers.contentLength = Str(<<Digits[n + 1]>>)

\* C10: once the body is complete, a body whose byte length differs from the
\* declared Content-Length is answered 400 and never parsed, and a body whose
\* byte length equals it is processed.
C10_ByteLength ==
  (/\ pc \in {"processing", "ended"}
   /\ req.headers.contentLength \in {Str(<<Digits[n + 1]>>) : n \in 0..9}
   /\ req.headers.contentType = Str(<<AJ>>) /\ req.headers.accept = Str(<<AJ>>)
   /\ ReachesContentType)
    => IF ByteLength(req.body.text) # C10_Declared
       THEN /\ pc = "ended" /\ res.statusCode = 400
            /\ res.body = [kind |-> "error", error |-> INVALID_CONTENT_LENGTH_MSG]
            /\ request = Undefined /\ elems = <<>> /\ log = <<>>
       ELSE ~(res.statusCode = 400
              /\ res.body = [kind |-> "error", error |-> INVALID_CONTENT_LENGTH_MSG])

(* ------------------------- parsing and batches ------------------------ *)

\* the body of the request was given to JSON.parse
ParseAttempted == \E k \in 1..Len(log) : log[k].e = "JSON.parse"

\* the callbacks and handlers called so far
Invocations == {k \in 1..Len(log) : log[k].e \in {"onRequest", "call", "onError"}}

\* C11: a body JSON.parse rejects is answered at once with status 200 and the
\* one response {id: null, jsonrpc: "2.0", error: {code: -32700, message}};
\* neither onRequest nor a handler is called.
C11_ParseError ==
  (ParseAttempted /\ ~req.body.parsed.ok)
    => /\ pc = "ended"
       /\ res.ended
       /\ res.statusCode = 200
       /\ res.body.kind = "json"
       /\ res.body.value.t = "response"
       /\ res.body.value.id = Null
       /\ res.body.value.jsonrpc = "2.0"
       /\ res.body.value.result = Undefined
       /\ res.body.value.error.code = Num(-32700)
       /\ res.body.value.error.message = Str(<<"err.message">>)
       /\ Invocations = {}
       /\ elems = <<>>

\* a body of two characters that is no JSON has been answered by a server
\* that has an onRequest callback
C11_Witness ==
  /\ pc = "ended" /\ onRequest
  /\ ParseAttempted /\ ~req.body.parsed.ok
  /\ Len(req.body.text) = 2
  /\ res.statusCode = 200

\* C12: the body `[]` is answered 204 with Content-Length 0 and no body, and
\* processRequest is not called.
C12_EmptyBatch ==
  (ParseAttempted /\ req.body.parsed = Parsed(Arr(<<>>)))
    => /\ pc = "ended"
       /\ res.ended
       /\ res.statusCode = 204
       /\ res.headers.contentLength = "0"
       /\ res.body = NoBody
       /\ elems = <<>>
       /\ Invocations = {}

\* the empty batch has been answered by a server that has an onRequest callback
C12_Witness ==
  /\ pc = "ended" /\ onRequest
  /\ request = Arr(<<>>)
  /\ res.statusCode = 204

\* the strictly increasing maps from 1..k into 1..n
Increasing(k, n) == {f \in [1..k -> 1..n] : \A i, j \in 1..k : i < j => f[i] < f[j]}

\* C13: the response array of a batch lists the responses of the elements that
\* got one in the order of those elements in the batch, in whatever order the
\* calls settled.
C13_BatchOrder ==
  (pc = "ended" /\ request.t = "array" /\ res.body.kind = "json")
    => /\ res.body.value.t = "array"
       /\ \E f \in Increasing(Len(res.body.value.a), Len(elems)) :
            /\ \A k \in 1..Len(res.body.value.a) : res.body.value.a[k] = elems[f[k]].value
            /\ \A n \in 1..Len(elems) :
                 Answered(n) => \E k \in 1..Len(res.body.value.a) : f[k] = n

\* a batch of two calls with different answers whose second call settled
\* before its first
C13_Witness ==
  /\ pc = "ended" /\ request.t = "array" /\ Len(elems) = 2
  /\ Answered(1) /\ Answered(2)
  /\ elems[1].value # elems[2].value
  /\ \E k1, k2 \in 1..Len(log) :
       /\ log[k1].e = "settled" /\ log[k1].n = 1
       /\ log[k2].e = "settled" /\ log[k2].n = 2
       /\ k2 < k1
  /\ res.body.kind = "json"

\* the element is a request object whose id is a string or a number
HasValidId(rq) == rq.t = "object" /\ Prop(rq, "id").t \in {"string", "number"}

\* call m failed: its element is no request object, or its promise was
\* rejected, or it returned an error response
Failed(m) ==
  \/ elems[m].request.t # "object"
  \/ elems[m].state = "rejected"
  \/ elems[m].state = "resolved" /\ elems[m].value.t = "response"
       /\ elems[m].value.error # Undefined

\* the HTTP response holds a response with this id
ResponseFor(id) ==
  /\ res.body.kind = "json"
  /\ res.body.value.t = "array"
  /\ \E k \in 1..Len(res.body.value.a) : res.body.value.a[k].id = id

\* C14: in a batch, when every call has settled, every element with a valid
\* id that has a failed sibling is answered all the same: the batch response
\* is sent, and it holds a response with the element's id.
C14_SiblingsAnswered ==
  (request.t = "array" /\ pc \in {"processing", "ended"}
     /\ \A n \in 1..Len(elems) : elems[n].state # "awaiting")
    => \A n, m \in 1..Len(elems) :
         (n # m /\ Failed(m) /\ HasValidId(elems[n].request))
           => /\ pc = "processing" => \A k \in 1..Len(elems) : elems[k].state = "resolved"
              /\ pc = "ended" => ResponseFor(Prop(elems[n].request, "id"))

\* the response objects the calls of the batch returned
Produced == {n \in 1..Len(elems) : Answered(n)}

\* C15: a batch none of whose elements got a response (each is a notification)
\* is answered 204 with Content-Length 0 and no body, never with `[]`; a batch
\* with a response is answered with the array of exactly the responses produced.
C15_BatchBody ==
  (pc = "ended" /\ request.t = "array" /\ Len(request.a) > 0)
    => /\ IF Produced = {}
          THEN res.statusCode = 204 /\ res.headers.contentLength = "0" /\ res.body = NoBody
          ELSE /\ res.statusCode = 200
               /\ res.body.kind = "json"
               /\ res.body.value.t = "array"
               /\ Len(res.body.value.a) = Cardinality(Produced)
               /\ \A n \in Produced :
                    \E k \in 1..Len(res.body.value.a) : res.body.value.a[k] = elems[n].value
       /\ (\A n \in 1..Len(elems) : NoIdKey(elems[n].request) /\ Version2(elems[n].request))
            => res.statusCode = 204 /\ res.body = NoBody

\* a batch of two notifications has been answered 204
C15_Witness ==
  /\ pc = "ended" /\ request.t = "array" /\ Len(elems) = 2
  /\ \A n \in 1..2 : NoIdKey(elems[n].request) /\ Version2(elems[n].request)
  /\ res.statusCode = 204

(* ----------------------- validation of a request ---------------------- *)

\* the single request has been answered with an error response of this code
ErrorAnswer(code) ==
  /\ res.statusCode = 200
  /\ res.body.kind = "json"
  /\ res.body.value.t = "response"
  /\ res.body.value.result = Undefined
  /\ res.body.value.error # Undefined
  /\ res.body.value.error.code = Num(code)

\* C16: a request whose id is an array, an object or a boolean (false among
\* them) is answered with the error -32600 "Invalid id", without the id, and
\* no handler is called.
C16_InvalidId ==
  (SingleDone /\ Prop(request, "id").t \in {"array", "object", "boolean"})
    => /\ ErrorAnswer(-32600)
       /\ res.body.value.error.message = Str(<<"Invalid id">>)
       /\ res.body.value.id \in {Undefined, Null}
       /\ HandlerCalls = {}

\* C17: a request with a valid id whose jsonrpc is not the string "2.0" is
\* answered with the error -32600 "Invalid jsonrpc value" and the request's id,
\* and no handler is called.
C17_InvalidVersion ==
  (SingleDone /\ HasValidId(request) /\ ~Version2(request))
    => /\ ErrorAnswer(-32600)
       /\ res.body.value.error.message = Str(<<"Invalid jsonrpc value">>)
       /\ res.body.value.id = Prop(request, "id")
       /\ HandlerCalls = {}

\* the method member names no method: it is missing, no string, empty,
\* reserved, or no key of the registry
NoSuchMethod(rq) ==
  \/ Prop(rq, "method").t # "string"
  \/ Prop(rq, "method").s = <<>>
  \/ StartsWith(Prop(rq, "method").s, <<"rpc.">>)
  \/ Prop(rq, "method").s \notin DOMAIN methods

\* C18: a request with a valid id and version whose method names no method is
\* answered with the error -32601, with the request's id and without a message.
C18_MethodNotFound ==
  (SingleDone /\ HasValidId(request) /\ Version2(request) /\ NoSuchMethod(request))
    => /\ ErrorAnswer(-32601)
       /\ res.body.value.error.message = Undefined
       /\ res.body.value.id = Prop(request, "id")
       /\ HandlerCalls = {}

\* the method member names a method the constructor registered
Registered(rq) ==
  /\ Prop(rq, "method").t = "string"
  /\ Prop(rq, "method").s \in {<<"sum">>, <<"wait">>, <<"notify">>}

\* C19: a request with a valid id and version and a registered method whose
\* params are a string, a number or a boolean is answered with the error
\* -32602 and its handler is not called; params that are an array or an
\* object are not answered so.
C19_InvalidParams ==
  (SingleDone /\ HasValidId(request) /\ Version2(request) /\ Registered(request))
    => /\ Prop(request, "params").t \in {"string", "number", "boolean"}
            => ErrorAnswer(-32602) /\ HandlerCalls = {}
       /\ Prop(request, "params").t \in {"array", "object"} => ~ErrorAnswer(-32602)

\* C20: a request with a valid id and version, a registered method and valid
\* params has its handler called once with the params alone, and when the
\* handler returns a value, or a promise that resolves to one, the response's
\* result is that value.
C20_RoundTrip ==
  (SingleDone /\ HasValidId(request) /\ Version2(request) /\ Callable(request))
    => /\ Cardinality(HandlerCalls) = 1
       /\ \A k \in HandlerCalls :
            /\ log[k].method = Prop(request, "method").s
            /\ log[k].params = Prop(request, "params")
            /\ Invoke(log[k].f, log[k].params).kind = "resolve"
                 => /\ res.body.kind = "json"
                    /\ res.body.value.t = "response"
                    /\ res.body.value.error = Undefined
                    /\ res.body.value.id = Prop(request, "id")
                    /\ res.body.value.result = Invoke(log[k].f, log[k].params).v

(* --------------------------- handler failures ------------------------- *)

\* the handler calls that failed, each with the value it threw
FailedCalls == {k \in HandlerCalls : log[k].f.name \in {"throws", "rejects"}}

\* the code is a number of the band -32099..-32000, or the decimal string of one
C21_InBand(code) ==
  \/ code.t = "number" /\ -32099 <= code.n /\ code.n <= -32000
  \/ code = Str(<<"-", "3", "2", "0", "5", "0">>)

\* C21: when a handler throws or rejects, the code of the error response is
\* the `code` of the value thrown if that code lies in -32099..-32000, bounds
\* included, and is -32000 for every other value thrown.
C21_ErrorCode ==
  (SingleDone /\ FailedCalls # {})
    => /\ res.body.kind = "json"
       /\ res.body.value.t = "response"
       /\ res.body.value.error # Undefined
       /\ \A k \in FailedCalls :
            res.body.value.error.code =
              IF C21_InBand(Prop(log[k].params, "code"))
              THEN Prop(log[k].params, "code")
              ELSE Num(-32000)

\* a handler that rejected with the code -32099 has been answered with it
C21_Witness ==
  /\ SingleDone
  /\ \E k \in FailedCalls :
       log[k].f.name = "rejects" /\ Prop(log[k].params, "code") = Num(-32099)
  /\ res.body.kind = "json"
  /\ res.body.value.error.code = Num(-32099)

\* what the handler call logged at k came to
Outcome(k) == Invoke(log[k].f, log[k].params)

\* the handler calls that threw or rejected
Failures == {k \in HandlerCalls : Outcome(k).kind \in {"throw", "reject"}}

\* the calls of the error callback
ErrorCallbacks == {j \in 1..Len(log) : log[j].e = "onError"}

\* C22: with an error callback registered, a handler that throws or rejects
\* has the callback called once, with the value thrown and the request's id,
\* by the time the request has its error response; the callback is not called
\* for a handler that succeeded or was not called, nor when none is registered.
C22_ErrorCallback ==
  /\ ~onError => ErrorCallbacks = {}
  /\ \A j \in ErrorCallbacks :
       \E k \in Failures : k < j /\ log[j].err = Outcome(k).v
  /\ (onError /\ request.t = "object" /\ elems # <<>> /\ elems[1].state # "awaiting")
       => /\ Cardinality(ErrorCallbacks) = Cardinality(Failures)
          /\ \A j \in ErrorCallbacks : log[j].id = Prop(request, "id")

\* sum has thrown on an array of letters, the callback has been called and
\* the request has its error response
C22_Witness ==
  /\ onError /\ SingleDone
  /\ Prop(request, "params") = Letters
  /\ Cardinality(ErrorCallbacks) = 1
  /\ res.body.kind = "json"
  /\ res.body.value.error # Undefined


(* ------------------------------ C23 ----------------------------------- *)

\* the calls of the result callback logged so far
ResultCallbacks == {j \in 1..Len(log) : log[j].e = "onResult"}

\* the handler calls that have settled so far
Settlements == {j \in 1..Len(log) : log[j].e = "settled"}

\* call n ended with a result
Succeeded(n) ==
  /\ Answered(n)
  /\ elems[n].value.error = Undefined

\* C23: when a handler completes successfully and a result callback is
\* registered, the callback is called once, at that moment, with the result
\* and the request's id; it is never called for a call that ends in an error,
\* nor without a handler having completed, nor when none is registered.
C23_ResultCallback ==
  /\ ~onResult => ResultCallbacks = {}
  /\ \A j \in ResultCallbacks : j - 1 \in Settlements
  /\ \A j \in Settlements :
       LET n == log[j].n
       IN IF onResult /\ Succeeded(n)
          THEN /\ j + 1 \in ResultCallbacks
               /\ log[j + 1].result = elems[n].value.result
               /\ log[j + 1].id = Prop(elems[n].request, "id")
               /\ \E k \in HandlerCalls :
                    /\ k < j
                    /\ Outcome(k) = Resolve(log[j + 1].result)
          ELSE j + 1 \notin ResultCallbacks

C23_Witness ==
  /\ onResult /\ SingleDone
  /\ request = ValidCall
  /\ \E j \in ResultCallbacks : log[j].result = Num(3) /\ log[j].id = Num(1)
  /\ res.body.kind = "json"
  /\ res.body.value.result = Num(3)


(* ------------------------------ C24 ----------------------------------- *)

\* the calls of the request callback logged so far
RequestCallbacks == {j \in 1..Len(log) : log[j].e = "onRequest"}

\* the arguments of the request callback, in the order of its calls
RequestsHeard ==
  LET heard == SelectSeq(log, LAMBDA ev : ev.e = "onRequest")
  IN [j \in 1..Len(heard) |-> heard[j].request]

\* the elements of the parsed request, in order
ElementsParsed ==
  IF request.t = "array" THEN request.a
  ELSE IF request = Undefined THEN <<>> ELSE <<request>>

\* C24: a registered request callback is called once for each element of the
\* parsed request, in order, with the element as parsed, whatever becomes of
\* the element (answered, failed, notification), and before the element's
\* handler is called; an unregistered one is never called.
C24_RequestCallback ==
  /\ ~onRequest => RequestCallbacks = {}
  /\ onRequest =>
       /\ RequestsHeard = ElementsParsed
       /\ \A k \in HandlerCalls \cup ErrorCallbacks :
            \E j \in RequestCallbacks :
              /\ j < k
              /\ log[k].e = "call" =>
                   /\ j = k - 1
                   /\ Prop(log[j].request, "params") = log[k].params

C24_Witness ==
  /\ onRequest /\ pc = "ended"
  /\ request.t = "array" /\ Len(request.a) = 2
  /\ Cardinality(RequestCallbacks) = 2
  /\ \E n, m \in 1..2 :
       /\ elems[n].state = "resolved" /\ ~Answered(n)
       /\ Answered(m) /\ elems[m].value.error # Undefined


(* ------------------------------ C25 ----------------------------------- *)

\* C25: a request that passed the transport checks (its body went to
\* JSON.parse) and is answered gets status 200 with the JSON-RPC body, be it a
\* result, a protocol error or an application error, or status 204 with no
\* body; it gets 204 exactly when no response was produced.
C25_Status ==
  (pc = "ended" /\ ParseAttempted)
    => /\ res.ended
       /\ res.statusCode \in {200, 204}
       /\ res.statusCode = 200 <=> res.body.kind = "json"
       /\ res.statusCode = 204 <=> res.body = NoBody
       /\ res.statusCode = 204 <=> (req.body.parsed.ok /\ Produced = {})

C25_Witness ==
  /\ SingleDone
  /\ HandlerCalls # {}
  /\ ErrorAnswer(SERVER_ERROR)


(* ------------------------------ C26 ----------------------------------- *)

\* the function the latest setMethod(name, f) gave, or the one the
\* constructor's methods give when setMethod was never called for the name
MostRecent(name) ==
  IF name \in DOMAIN registrations THEN registrations[name]
  ELSE Lookup(InitialMethods, name)

\* C26: at every step, the registry gives for each name the function of the
\* latest setMethod call for that name, or the constructor's when there was
\* none (so a later registration overwrites an earlier one and leaves the
\* other names alone), and every handler call a request causes is a call of
\* that function.
C26_Registry ==
  [][/\ \A name \in DOMAIN methods' \cup DOMAIN InitialMethods \cup RegistryNames :
          /\ In(name, methods') = (name \in DOMAIN registrations' \/ In(name, InitialMethods))
          /\ In(name, methods') => Lookup(methods', name) = MostRecent(name)'
      /\ \A k \in (Len(log) + 1)..Len(log') :
          log'[k].e = "call" => log'[k].f = MostRecent(log'[k].method)]_vars

C26_Witness ==
  /\ SingleDone
  /\ registrations = (<<"sum">> :> Fn("notify")) @@ (<<"late">> :> Fn("wait"))
  /\ \E k \in HandlerCalls : log[k].method = <<"sum">> /\ log[k].f = Fn("notify")
  /\ Answered(1)


(* ------------------------------ C27 ----------------------------------- *)

\* the path is a string that begins with "/" and has allowed characters only
PathConforms(p) ==
  /\ p.t = "string"
  /\ StartsWith(p.s, <<"/">>)
  /\ \A i \in 1..Len(p.s) : p.s[i] \in PathCharacters

\* the methods are a plain object whose values are all functions
MethodsConform(ms) ==
  /\ ms.t = "object"
  /\ \A k \in DOMAIN ms.o : TypeOf(ms.o[k]) = "function"

\* an option is given, and it is not what the constructor is to accept
Nonconforming(o) ==
  \/ Prop(o, "path") # Undefined /\ ~PathConforms(Prop(o, "path"))
  \/ Prop(o, "methods") # Undefined /\ ~MethodsConform(Prop(o, "methods"))
  \/ Prop(o, "onRequest") # Undefined /\ TypeOf(Prop(o, "onRequest")) # "function"
  \/ Prop(o, "onError") # Undefined /\ TypeOf(Prop(o, "onError")) # "function"

\* C27 as stated: a constructor call whose path, methods or callback option
\* is given and does not conform throws, and no instance is created.
C27_FailFast_AsStated ==
  [][(instance = "none" /\ Nonconforming(options)) => instance' = "threw"]_vars


(* ------------------------------ C28 ----------------------------------- *)

\* promise i is the promise of a listen call
OfListen(i) == i \in DOMAIN promises /\ promises[i].op = "listen"

\* promise i is resolved or rejected
Settled(i) == i \in DOMAIN promises /\ promises[i].state # "pending"

\* C28 as stated: the promise of every listen call is settled in the end, and
\* once settled it stays as it is (resolved or rejected, never both).
C28_ListenSettles_AsStated ==
  /\ \A i \in 1..MaxCalls : OfListen(i) ~> Settled(i)
  /\ [][\A i \in DOMAIN promises : Settled(i) => promises'[i].state = promises[i].state]_vars

(* ------------------------------ C29 ----------------------------------- *)

\* C29 as stated: a listen call whose promise is rejected has not made the
\* server listen.
C29_RejectedNotListening_AsStated ==
  \A i \in DOMAIN promises :
    (promises[i].op = "listen" /\ promises[i].state = "rejected") => ~promises[i].opened

(* ------------------------------ C30 ----------------------------------- *)

\* every promise is settled, nothing is left to emit, the server is closed
Quiet ==
  /\ \A i \in DOMAIN promises : promises[i].state # "pending"
  /\ server.queue = <<>>
  /\ ~server.handle

\* C30 as stated: once the server is closed, the error listeners listen and
\* close added are gone: only the constructor's is left.
C30_ListenersRemoved_AsStated ==
  (Quiet /\ promises # <<>> /\ promises[Len(promises)].op = "close")
    => ErrorListeners(server) <= 1


(* ------------------------------ C31 ----------------------------------- *)

\* C31 as stated: a listen call without a port on a server that is not
\* listening makes the server listen, its promise is never rejected, and once
\* settled it is resolved with the number of the port assigned.
C31_ListenAnyPort_AsStated ==
  \A i \in DOMAIN promises :
    (promises[i].op = "listen" /\ promises[i].port = Undefined
       /\ \A j \in 1..(i - 1) : promises[j].op = "close")
      => /\ promises[i].opened
         /\ promises[i].state # "rejected"
         /\ promises[i].state = "resolved" => promises[i].value.t = "number"


(* ------------------------------ C32 ----------------------------------- *)

\* the id member is present and is no string, number or null
InvalidId(rq) == Prop(rq, "id").t \in {"array", "object", "boolean"}

\* the params member is present and is neither an array nor an object
InvalidParams(rq) == Prop(rq, "params").t \notin {"undefined", "array", "object"}

\* the method member names no method, whatever setMethod calls were made
\* while the request was handled
UnknownMethod(rq) ==
  \/ Prop(rq, "method").t # "string"
  \/ Prop(rq, "method").s = <<>>
  \/ StartsWith(Prop(rq, "method").s, <<"rpc.">>)
  \/ Prop(rq, "method").s \notin DOMAIN methods \cup SetNames

\* the single request has been answered with this error and no handler ran
RejectedWith(code, message) ==
  /\ ErrorAnswer(code)
  /\ res.body.value.error.message = message
  /\ HandlerCalls = {}

\* C32 as stated: the checks of an element run in the order id, version,
\* notification, method, params; the answer carries the error of the first
\* check that fails, and a handler is called only when all four have passed.
C32_CheckOrder_AsStated ==
  SingleDone
    => /\ InvalidId(request) => RejectedWith(-32600, Str(<<"Invalid id">>))
       /\ (~InvalidId(request) /\ ~Version2(request))
            => RejectedWith(-32600, Str(<<"Invalid jsonrpc value">>))
       /\ (~InvalidId(request) /\ Version2(request) /\ ~NoIdKey(request)
              /\ UnknownMethod(request))
            => RejectedWith(-32601, Undefined)
       /\ (~InvalidId(request) /\ Version2(request) /\ ~NoIdKey(request)
              /\ Registered(request) /\ InvalidParams(request))
            => RejectedWith(-32602, Undefined)
       /\ HandlerCalls # {}
            => /\ ~InvalidId(request) /\ Version2(request)
               /\ ~UnknownMethod(request) /\ ~InvalidParams(request)


(* ------------------------------ C33 ----------------------------------- *)

\* the response objects of the HTTP response body
Serialized ==
  IF res.body.kind # "json" THEN {}
  ELSE IF res.body.value.t = "array"
  THEN {res.body.value.a[k] : k \in 1..Len(res.body.value.a)}
  ELSE {res.body.value}

\* C33 as stated: every response object that is written carries jsonrpc "2.0"
\* and exactly one of result and error (JSON.stringify leaves out a member
\* whose value is undefined).
C33_ResultXorError_AsStated ==
  \A response \in Serialized :
    /\ response.t = "response"
    /\ response.jsonrpc = "2.0"
    /\ (response.result # Undefined) # (response.error # Undefined)


(* ------------------------------ C34 ----------------------------------- *)

\* C34: whatever setMethod calls interleave with a request, the function a
\* handler call runs is the one the registry held for the name when the
\* membership check was made, and the answer of a single request is the
\* outcome of that very call, also when the name was registered anew while
\* the call was under way.
C34_RegistrationRace ==
  /\ [](\A k \in HandlerCalls :
          (request.t = "object" /\ elems # <<>> /\ elems[1].state = "resolved")
            => /\ Answered(1)
               /\ IF Outcome(k).kind = "resolve"
                  THEN /\ elems[1].value.result = Outcome(k).v
                       /\ elems[1].value.error = Undefined
                  ELSE elems[1].value.error # Undefined)
  /\ [][\A k \in (Len(log) + 1)..Len(log') :
          log'[k].e = "call"
            => /\ log'[k].method \in DOMAIN methods
               /\ log'[k].f = methods[log'[k].method]]_vars

C34_Witness ==
  /\ SingleDone
  /\ methods[<<"sum">>] = Fn("wait")
  /\ \E k \in HandlerCalls : log[k].method = <<"sum">> /\ log[k].f = Fn("sum")
  /\ res.body.kind = "json"
  /\ res.body.value.result = Num(3)


(* ------------------------------ C35 ----------------------------------- *)

\* the written response of request r when no other request is under way
Alone(r) ==
  LET res0 == [NewRes EXCEPT !.headers.connection = "close"]
      res1 == [res0 EXCEPT !.headers.contentType = AJ]
      reqErr == CheckRequest(r, path)
      parsed == JSONParse(r.body)
      calls == Calls(parsed.value)
      settled == [n \in 1..Len(calls) |->
                    IF calls[n].state = "awaiting"
                    THEN AfterAwait(Stored(calls[n]), onError, onResult)
                    ELSE calls[n]]
  IN IF Truthy(username) /\ ~Authorized(r.headers.authorization) THEN SendUnauthorized(res0)
     ELSE IF ~reqErr.none THEN SendError(res0, reqErr.statusCode, reqErr.message)
     ELSE IF ~LengthMatches(r.body.text, r.headers.contentLength)
     THEN SendError(res0, 400, INVALID_CONTENT_LENGTH_MSG)
     ELSE IF ~parsed.ok THEN SendResponse(res1, ParseErrorResponse)
     ELSE IF parsed.value.t = "array" /\ Len(parsed.value.a) = 0
     THEN SendResponse(res1, Undefined)
     ELSE SendResponse(res1, IF parsed.value.t = "array" THEN Prune(settled)
                             ELSE settled[1].value)

\* the connection at hand, as a record
Connection ==
  [pc |-> pc, req |-> req, body |-> body, res |-> res, request |-> request,
   elems |-> elems, log |-> log]

\* whether connection c waits for body bytes or for a handler to settle
Suspended(c) ==
  \/ c.pc = "reading"
  \/ c.pc = "processing" /\ \E n \in 1..Len(c.elems) : c.elems[n].state = "awaiting"

\* C35: requests are processed independently: while one request waits for
\* its body or for its handler, another is checked, dispatched and answered;
\* the steps of one connection leave the other as it is, and the response a
\* request gets is the one it gets when it is the only request.
C35_Independent ==
  /\ []((pc = "ended" => res = Alone(req))
        /\ (parked.pc = "ended" => parked.res = Alone(parked.req)))
  /\ [][\/ parked' = parked
        \/ parked' = Connection /\ Connection' = parked]_vars

C35_Witness ==
  /\ Suspended(parked)
  /\ parked.request = RpcRequest(Num(2), V2, Str(<<"wait">>), Obj([ms |-> Num(1)]))
  /\ pc = "ended"
  /\ request = ValidCall
  /\ res.body.kind = "json"
  /\ res.body.value.id = Num(1)
  /\ res.body.value.result = Num(3)


(* ------------------------------ C36 ----------------------------------- *)

\* C36 (as stated): an exception the request callback throws is contained in
\* the handling of its request: no call of processRequest that made the
\* callback ends in a failure that nothing handles.
C36_CallbackContained_AsStated ==
  (onRequest /\ onRequestThrows)
    => \A n \in 1..Len(elems) :
         (\E k \in RequestCallbacks : log[k].request = elems[n].request)
           => elems[n].state # "rejected"


(* ------------------------------ C37 ----------------------------------- *)

\* the request passed the checks of reqHandler and its body has arrived
BodyReceived == pc = "reading" /\ Len(body) = Len(req.body.text)

\* C37 (as stated): a request that passed the transport checks and whose
\* body has arrived is answered in the end, whatever its handler does: return,
\* throw or reject, with whatever value.
C37_EventuallyAnswered_AsStated ==
  BodyReceived ~> (pc = "ended" /\ res.ended)


(* ------------------------------ C38 ----------------------------------- *)

\* the status codes of the responses to requests that fail a transport check
TransportStatus == {400, 401, 404, 405, 415}

\* C38: a request turned down by a transport check has no JSON-RPC effect:
\* its body is never parsed, the request callback is never called for it, no
\* handler is called, and the step that turns it down leaves the registry as
\* it is.
C38_NoSideEffects ==
  /\ [](res.statusCode \in TransportStatus
          => /\ res.ended
             /\ log = <<>>
             /\ request = Undefined
             /\ elems = <<>>)
  /\ [][(res'.statusCode \in TransportStatus /\ res.statusCode \notin TransportStatus)
          => /\ methods' = methods
             /\ registrations' = registrations]_vars

C38_Witness ==
  /\ pc = "ended"
  /\ res.statusCode = 404
  /\ onRequest
  /\ req.body.parsed = Parsed(ValidCall)
  /\ Len(req.body.text) > 0
  /\ log = <<>>


(* ------------------------------ C39 ----------------------------------- *)

\* the functions the constructor or setMethod put into the registry
Placed ==
  {InitialMethods[name] : name \in DOMAIN InitialMethods}
    \cup {registrations[name] : name \in DOMAIN registrations}

\* C39 (as stated): every function called as a handler was put into the
\* registry by the constructor or by setMethod, under the name the request
\* gave; for a name that was never registered, inherited names included, no
\* function is called.
C39_OnlyRegistered_AsStated ==
  \A k \in HandlerCalls :
    /\ log[k].method \in DOMAIN methods
    /\ log[k].f \in Placed


(* ------------------------------ C40 ----------------------------------- *)

\* the state of the connection at hand
connection == <<pc, req, body, res, request, elems, log>>

\* C40: every entry of the registry is a function, whatever the constructor
\* was given and whatever setMethod calls and requests followed; after the
\* construction the registry changes only by a setMethod call that is given a
\* function, which sets one entry and is no step of a request; a setMethod
\* call with another value and the steps of requests leave it as it is.
C40_RegistryOfFunctions ==
  /\ [](\A name \in DOMAIN methods : TypeOf(methods[name]) = "function")
  /\ [][(instance # "none" /\ methods' # methods)
          => /\ connection' = connection
             /\ \E name \in RegistryNames, method \in RegistryValues :
                  /\ TypeOf(method) = "function"
                  /\ methods' = (name :> method) @@ methods]_vars
  /\ [][connection' # connection => methods' = methods]_vars

C40_Witness ==
  /\ instance = "created"
  /\ SingleDone
  /\ HandlerCalls # {}
  /\ DOMAIN methods = {<<"sum">>, <<"late">>}
  /\ methods[<<"sum">>] = Fn("notify")
  /\ methods[<<"late">>] = Fn("wait")

====
